---- MODULE Spec2Model ----
(***************************************************************************)
(* WonderBox: binary STL loader with hash-table vertex deduplication       *)
(* (src/main.c, main) over the fingerprint hash of hash.h                  *)
(* (src/unnamed/part_000), followed by the per-pixel ray-cast render loop. *)
(*                                                                         *)
(* 32-bit unsigned words are pairs <<hi, lo>> of 16-bit halves, so that    *)
(* every uint32_t operation of the source (xor, shift, multiply, 3 * n) is *)
(* computed modulo 2^32 within the range of TLC's integers.                   *)
(***************************************************************************)
EXTENDS Integers, Sequences, FiniteSets

\* ------------------------------------------------------------------ bounds
\* Largest triangle-count field whose records are all read, and the largest
\* number of records a stream holds when its count field claims more.
MaxTris == 2
\* Frames rendered before the display surface reports "stop".
MaxFrames == 2
\* Size of the frame of the main specification (the source draws 640 x 480).
FrameWidth == 3
FrameHeight == 2

\* The one element of a singleton set. In The({e(v) : v \in {d}}) the
\* expression d is evaluated to a value v before e is entered: this is how the
\* model writes a C statement sequence `v = d; ... e(v)`, read bottom-up.
The(S) == CHOOSE r \in S : TRUE

\* ------------------------------------------------------- 32-bit arithmetic
W16 == 256 * 256

Word(hi, lo) == <<hi, lo>>

\* 2^n for 0 <= n <= 16
Pow2(n) == <<1, 2, 4, 8, 16, 32, 64, 128, 256, 512, 1024, 2048, 4096, 8192,
             16384, 32768, 65536>>[n + 1]

\* Bit k of a ^ b, in place.
XorBit(a, b, k) == (((a \div Pow2(k)) + (b \div Pow2(k))) % 2) * Pow2(k)

XorNibble(a, b, k) ==
    XorBit(a, b, k) + XorBit(a, b, k + 1) + XorBit(a, b, k + 2) + XorBit(a, b, k + 3)

\* a ^ b on 16-bit halves
Xor16(a, b) ==
    XorNibble(a, b, 0) + XorNibble(a, b, 4) + XorNibble(a, b, 8) + XorNibble(a, b, 12)

\* x ^ y on uint32_t
Xor32(x, y) == <<Xor16(x[1], y[1]), Xor16(x[2], y[2])>>

\* x >> n on uint32_t, 0 < n < 32
Shr32(x, n) ==
    IF n >= 16
    THEN <<0, x[1] \div Pow2(n - 16)>>
    ELSE <<x[1] \div Pow2(n), ((x[1] % Pow2(n)) * Pow2(16 - n)) + (x[2] \div Pow2(n))>>

\* The full 32-bit product of two 16-bit numbers, as a word.
Mul16(a, b) ==
    LET p == (a \div 256) * b
        q == (a % 256) * b
        r == ((p % 256) * 256) + q
    IN  <<(p \div 256) + (r \div W16), r % W16>>

\* x * c on uint32_t (modulo 2^32)
Mul32(x, c) ==
    LET ll == Mul16(x[2], c[2])
        hl == Mul16(x[1], c[2])
        lh == Mul16(x[2], c[1])
    IN  <<(ll[1] + hl[2] + lh[2]) % W16, ll[2]>>

\* w % m for a word w and a modulus 0 < m < 2^15
UMod(w, m) == (((w[1] % m) * (W16 % m)) + (w[2] % m)) % m

\* A natural below 2^31 as a word, and a word below 2^31 as a natural.
NatToWord(n) == <<n \div W16, n % W16>>
WordToNat(w) == (w[1] * W16) + w[2]

\* --------------------------------------------------------------- hash.h
\* 0xed5ad4bb, 0xac4c1b51, 0x31848bab
HashMul1 == Word(60762, 54459)
HashMul2 == Word(44108, 6993)
HashMul3 == Word(12676, 35755)

HashStage(x, shift, mul) == Mul32(Xor32(x, Shr32(x, shift)), mul)

int_hash32(x) ==
    The({ The({ The({ Xor32(x3, Shr32(x3, 14)) :
                      x3 \in {HashStage(x2, 15, HashMul3)} }) :
                x2 \in {HashStage(x1, 11, HashMul2)} }) :
          x1 \in {HashStage(x, 17, HashMul1)} })

\* A mixing round that forgets its third component (reads y twice).
hash_skips_z(x, y, z) ==
    The({ The({ int_hash32(Xor32(h2, y)) :
                h2 \in {int_hash32(Xor32(h1, y))} }) :
          h1 \in {int_hash32(Xor32(Word(0, 0), x))} })

\* hash(float x, float y, float z): the arguments are the floats' bit patterns.
hash(x, y, z) ==
    The({ The({ int_hash32(Xor32(h2, z)) :
                h2 \in {int_hash32(Xor32(h1, y))} }) :
          h1 \in {int_hash32(Xor32(Word(0, 0), x))} })

\* ------------------------------------------------------------ float model
\* A float is modelled in fixed point: the integer k stands for k / FScale.
\* Sums, differences and comparisons are exact; products, quotients and
\* square roots are rounded to the grid the way the hardware rounds them to
\* the float grid. Small integers and their exact results are represented
\* exactly, as they are in binary32.
FScale == Pow2(10)

F(n) == n * FScale

FMul(a, b) == ((a * b) + (FScale \div 2)) \div FScale

FDiv(a, b) == IF b > 0 THEN (a * FScale) \div b ELSE ((0 - a) * FScale) \div (0 - b)

RECURSIVE ISqrtIn(_, _, _)
ISqrtIn(n, lo, hi) ==
    IF lo >= hi THEN lo
    ELSE LET mid == (lo + hi + 1) \div 2
         IN  IF mid * mid <= n THEN ISqrtIn(n, mid, hi) ELSE ISqrtIn(n, lo, mid - 1)

\* sqrtf
FSqrt(a) == The({ISqrtIn(n, 0, 46340) : n \in {a * FScale}})

\* powf(x, n) for a whole exponent n, by repeated squaring
RECURSIVE FPow(_, _)
FPow(x, n) ==
    IF n = 0 THEN F(1)
    ELSE IF n % 2 = 0
         THEN LET half == FPow(x, n \div 2) IN FMul(half, half)
         ELSE FMul(FPow(x, n - 1), x)

\* (uint8_t) f for 0 <= f <= 255: truncation
ToUint8(f) == f \div FScale

\* ------------------------------------------------------- main.c, vec3_t
vec3_length_squared(v) == FMul(v[1], v[1]) + FMul(v[2], v[2]) + FMul(v[3], v[3])

vec3_length(v) == FSqrt(vec3_length_squared(v))

vec3_normalized(v) ==
    The({ <<FDiv(v[1], l), FDiv(v[2], l), FDiv(v[3], l)>> : l \in {vec3_length(v)} })

vec3_scale(v, scale) == <<FMul(v[1], scale), FMul(v[2], scale), FMul(v[3], scale)>>

vec3_add(a, b) == <<a[1] + b[1], a[2] + b[2], a[3] + b[3]>>

vec3_sub(a, b) == <<a[1] - b[1], a[2] - b[2], a[3] - b[3]>>

vec3_dot(a, b) == FMul(a[1], b[1]) + FMul(a[2], b[2]) + FMul(a[3], b[3])

clampf(value, min, max) ==
    IF value < min THEN min ELSE IF value > max THEN max ELSE value

\* A value that was never written (an uninitialised local, an unset cell).
NoValue == "none"

\* ------------------------------------------- main.c, ray/sphere intersection
\* The quadratic's coefficients, lines 78-82.
RayQuadratic(r, s) ==
    LET oc == <<r.origin[1] - s.center[1], r.origin[2] - s.center[2],
                r.origin[3] - s.center[3]>>
        d  == r.direction
        a  == FMul(d[1], d[1]) + FMul(d[2], d[2]) + FMul(d[3], d[3])
        b  == FMul(F(2), FMul(oc[1], d[1]) + FMul(oc[2], d[2]) + FMul(oc[3], d[3]))
        c  == (FMul(oc[1], oc[1]) + FMul(oc[2], oc[2]) + FMul(oc[3], oc[3]))
                - FMul(s.radius, s.radius)
    IN  [a |-> a, b |-> b, c |-> c,
         discriminant |-> FMul(b, b) - FMul(FMul(F(4), a), c)]

\* Hits behind the origin filtered out.
ray_sphere_front_only(r, s) ==
    The({ IF q.discriminant < 0
          THEN [hit |-> FALSE, t |-> NoValue]
          ELSE The({ IF t < 0 THEN [hit |-> FALSE, t |-> NoValue]
                              ELSE [hit |-> TRUE, t |-> t] :
                     t \in {FDiv((0 - q.b) - FSqrt(q.discriminant), FMul(F(2), q.a))} }) :
          q \in {RayQuadratic(r, s)} })

\* ray_sphere_intersection: t is written only on a hit.
ray_sphere_intersection(r, s) ==
    The({ IF q.discriminant < 0
          THEN [hit |-> FALSE, t |-> NoValue]
          ELSE [hit |-> TRUE,
                t |-> FDiv((0 - q.b) - FSqrt(q.discriminant), FMul(F(2), q.a))] :
          q \in {RayQuadratic(r, s)} })

\* The hit's position and normal, lines 94-95.
HitRecord(r, s, t) ==
    The({ [hit |-> TRUE, t |-> t, position |-> position,
           normal |-> vec3_scale(vec3_sub(position, s.center), FDiv(F(1), s.radius))] :
          position \in {vec3_add(r.origin, vec3_scale(r.direction, t))} })

ray_sphere_intersection_with_normal_and_position(r, s) ==
    The({ IF x.hit
          THEN HitRecord(r, s, x.t)
          ELSE [hit |-> FALSE, t |-> NoValue, position |-> NoValue, normal |-> NoValue] :
          x \in {ray_sphere_intersection(r, s)} })

\* ------------------------------------------------- main.c, Blinn-Phong
\* Lines 117-126: the two terms, from the unit light direction.
ShadeTerms(pl, surface_normal, view_direction, specular_hardness, light_direction, distance_squared) ==
    The({ The({ [color |-> vec3_scale(pl.color,
                              FDiv(FMul(intensity, pl.power), distance_squared)),
                 specular |-> vec3_scale(pl.color,
                              FDiv(FMul(specular_intensity, pl.power), distance_squared))] :
                specular_intensity \in
                    {FPow(clampf(vec3_dot(surface_normal, half_vector), F(0), F(1)),
                          specular_hardness)} }) :
          intensity \in {clampf(vec3_dot(surface_normal, light_direction), F(0), F(1))},
          half_vector \in {vec3_normalized(vec3_add(light_direction, view_direction))} })

\* Lines 112-115: the light vector, its length and its direction.
ShadeFrom(pl, surface_normal, view_direction, specular_hardness, light_vector) ==
    The({ The({ ShadeTerms(pl, surface_normal, view_direction, specular_hardness,
                           light_direction, distance_squared) :
                light_direction \in
                    {vec3_scale(light_vector, FDiv(F(1), FSqrt(distance_squared)))} }) :
          distance_squared \in {vec3_length_squared(light_vector)} })

blinn_phong_shading(pl, surface_position, surface_normal, view_direction, specular_hardness) ==
    IF pl.power < 0
    THEN [color |-> <<0, 0, 0>>, specular |-> <<0, 0, 0>>]
    ELSE The({ ShadeFrom(pl, surface_normal, view_direction, specular_hardness,
                         light_vector) :
               light_vector \in {vec3_sub(pl.position, surface_position)} })

\* ------------------------------------------------ main.c, one pixel's work
\* light1, lines 207-210
light1 == [power |-> F(1), color |-> <<F(1), F(1), F(1)>>,
           position |-> <<F(-1), F(-1), F(0)>>]

\* sphere, line 225
sphere == [center |-> <<F(0), F(0), F(-2)>>, radius |-> F(1)]

\* The camera ray of pixel (i, j), lines 216-224.
CameraRay(pi, pj, w, h) ==
    LET x0 == FDiv(F(pi), F(w))
        y0 == FDiv(F(pj), F(h))
        x1 == FMul(F(2), x0) - F(1)
        y  == FMul(F(2), y0) - F(1)
        x  == FMul(x1, FDiv(F(w), F(h)))
    IN  The({ [direction |-> vec3_normalized(v), origin |-> <<0, 0, 0>>] :
              v \in {<<x, y, F(-1)>>} })

\* (uint8_t) clampf(c * 255, 0, 255)
Channel(c) == ToUint8(clampf(FMul(c, F(255)), F(0), F(255)))

\* The colour written from a lighting result, lines 232-234.
LitColour(lighting) ==
    <<Channel(lighting.color[1]), Channel(lighting.color[2]), Channel(lighting.color[3])>>

\* The body of the pixel loop, lines 216-238: what is handed to draw_pixel,
\* with the intersection and the lighting it was computed from.
\* Lines 230-235: shade the hit and convert the result.
ShadedPixel(ray, x) ==
    The({ [hit |-> TRUE, lighting |-> lighting, rgb |-> LitColour(lighting)] :
          lighting \in {blinn_phong_shading(light1, x.position, x.normal,
                                            ray.direction, 20)} })

PixelColour(pi, pj, w, h) ==
    The({ The({ IF x.hit
                THEN ShadedPixel(ray, x)
                ELSE [hit |-> FALSE, lighting |-> NoValue, rgb |-> <<0, 0, 0>>] :
                x \in {ray_sphere_intersection_with_normal_and_position(ray, sphere)} }) :
          ray \in {CameraRay(pi, pj, w, h)} })

\* ------------------------------------------------------------- mesh input
\* binary32 bit patterns: 0.0f, 1.0f and -0.0f
Bits0 == Word(0, 0)
Bits1 == Word(16256, 0)
BitsNeg0 == Word(32768, 0)

V000 == <<Bits0, Bits0, Bits0>>
V100 == <<Bits1, Bits0, Bits0>>
V010 == <<Bits0, Bits1, Bits0>>
V110 == <<Bits1, Bits1, Bits0>>
VNeg0 == <<BitsNeg0, Bits0, Bits0>>

\* The triangle records a stream may hold: a triangle with three distinct
\* corners, one sharing an edge with it, one whose corners' hashes agree
\* modulo 3, a degenerate one, and one using -0.0 next to 0.0.
TriA == <<V000, V100, V010>>
TriB == <<V100, V110, V010>>
TriC == <<V010, V110, V000>>
TriD == <<V000, V000, V000>>
TriE == <<VNeg0, V000, V100>>
Triangles == {TriA, TriB, TriC, TriD, TriE}

\* The smallest triangle count n with 3 * n >= 2^32 (0x55555556).
WrapTris == (21845 * W16) + 21846

\* Values of the 4-byte triangle-count field.
TriCounts == (0 .. MaxTris) \cup {WrapTris}

\* -------------------------------------------------------------- the state
VARIABLES
    pc,                       \* position in main
    argc,
    exit_code,                \* main's return value, Running before it returns
    message,                  \* the text handed to puts
    num_tris,
    num_max_unique_vertices,
    unique_vertices,          \* written cells of the array: index -> vertex
    num_unique_vertices,
    preallocated_nodes,       \* written cells of the arena: index -> node
    new_node_index,
    num_buckets,
    buckets,                  \* written cells: index -> node index or NULL
    triangle_index,
    triangle_vertices,
    triangle_vertex_index,
    window,                   \* nano_gui_create_fixed_size_window was called
    i, j,                     \* the pixel loop's counters
    surface,                  \* pixels written by nano_gui_draw_pixel
    \* history
    short_read,               \* the first field the stream failed to deliver
    stream,                   \* the vertices the deduplicator has processed
    assigned,                 \* the unique index it settled on for each
    events_calls,             \* calls of nano_gui_process_events
    last_events,              \* what the last call returned
    frames,                   \* calls that returned true
    drawn,                    \* draw_pixel calls per pixel since the last poll
    total_draws,
    \* a function called on its own: its arguments and its result
    call, ret

progVars == <<pc, argc, exit_code, message, num_tris, num_max_unique_vertices,
              unique_vertices, num_unique_vertices, preallocated_nodes,
              new_node_index, num_buckets, buckets, triangle_index,
              triangle_vertices, triangle_vertex_index, window, i, j, surface,
              short_read, stream, assigned, events_calls, last_events, frames,
              drawn, total_draws>>

vars == <<progVars, call, ret>>

meshVars == <<num_tris, num_max_unique_vertices, unique_vertices,
              num_unique_vertices, preallocated_nodes, new_node_index,
              num_buckets, buckets, triangle_index, triangle_vertices,
              triangle_vertex_index, stream, assigned>>

renderVars == <<window, i, j, surface, events_calls, last_events, frames, drawn,
                total_draws>>

NULL == 0 - 1
Running == 0 - 1

Pixels(w, h) == (0 .. w - 1) \X (0 .. h - 1)

\* arr[idx] = val on an array given by its written cells
Store(arr, idx, val) ==
    [k \in (DOMAIN arr) \cup {idx} |-> IF k = idx THEN val ELSE arr[k]]

ProgInit(pc0, argcs) ==
    /\ pc = pc0
    /\ argc \in argcs
    /\ exit_code = Running
    /\ message = ""
    /\ num_tris = 0
    /\ num_max_unique_vertices = 0
    /\ unique_vertices = <<>>
    /\ num_unique_vertices = 0
    /\ preallocated_nodes = <<>>
    /\ new_node_index = 0
    /\ num_buckets = 0
    /\ buckets = <<>>
    /\ triangle_index = 0
    /\ triangle_vertices = <<>>
    /\ triangle_vertex_index = 0
    /\ window = FALSE
    /\ i = 0
    /\ j = 0
    /\ surface = <<>>
    /\ short_read = "none"
    /\ stream = <<>>
    /\ assigned = <<>>
    /\ events_calls = 0
    /\ last_events = "none"
    /\ frames = 0
    /\ drawn = [p \in Pixels(FrameWidth, FrameHeight) |-> 0]
    /\ total_draws = 0

Init ==
    /\ ProgInit("args", {1, 2, 3})
    /\ call = [fn |-> "main"]
    /\ ret = [done |-> FALSE]

\* return code; after puts(text) when there is one
Return(code, text) ==
    /\ pc' = "exit"
    /\ exit_code' = code
    /\ message' = text

\* ----------------------------------------------------- main, lines 133-152
CheckArgs ==
    /\ pc = "args"
    /\ IF argc # 2
       THEN Return(0, "Expected arguments: path/to/mesh.stl")
       ELSE pc' = "fopen" /\ UNCHANGED <<exit_code, message>>
    /\ UNCHANGED <<argc, meshVars, renderVars, short_read, call, ret>>

OpenFile ==
    /\ pc = "fopen"
    /\ \E opened \in BOOLEAN :
          IF ~opened
          THEN Return(1, "Failed to open file")
          ELSE pc' = "fseek" /\ UNCHANGED <<exit_code, message>>
    /\ UNCHANGED <<argc, meshVars, renderVars, short_read, call, ret>>

\* fseek(stl_mesh_file, 80, SEEK_CUR) != 0
SeekFails(rc) == rc # 0

SkipHeader ==
    /\ pc = "fseek"
    /\ \E rc \in {0, NULL} :
          /\ short_read' = IF rc # 0 THEN "header" ELSE short_read
          /\ IF SeekFails(rc)
             THEN Return(1, "Failed to seek")
             ELSE pc' = "read_count" /\ UNCHANGED <<exit_code, message>>
    /\ UNCHANGED <<argc, meshVars, renderVars, call, ret>>

\* fread(..., n, file) != n
ReadFailsIgnoringPartial(got, n) == got = 0
ReadFails(got, n) == got # n

ReadCount ==
    /\ pc = "read_count"
    /\ \E got \in 0 .. 1, n \in TriCounts :
          /\ short_read' = IF got < 1 THEN "count" ELSE short_read
          /\ IF ReadFails(got, 1)
             THEN Return(1, "Failed to read number of triangles")
                  /\ UNCHANGED num_tris
             ELSE /\ pc' = "alloc"
                  /\ num_tris' = (IF got = 1 THEN n ELSE num_tris)
                  /\ UNCHANGED <<exit_code, message>>
    /\ UNCHANGED <<argc, num_max_unique_vertices, unique_vertices,
                   num_unique_vertices, preallocated_nodes, new_node_index,
                   num_buckets, buckets, triangle_index, triangle_vertices,
                   triangle_vertex_index, stream, assigned, renderVars, call, ret>>

\* ----------------------------------------------------- main, lines 154-167
\* 3 * num_tris: int times uint32_t, computed in 32 bits, then widened.
NumMaxUniqueVerticesUnscaled(nt) == nt
NumMaxUniqueVertices(nt) == WordToNat(Mul32(Word(0, 3), NatToWord(nt)))

NumBuckets(nt) == WordToNat(Mul32(Word(0, 3), NatToWord(nt)))

\* the bound of the loop that clears the buckets
BucketInitCount(nt) == WordToNat(Mul32(Word(0, 3), NatToWord(nt)))

\* triangle_index < num_tris
MoreTriangles(ti, nt) == ti < nt

Allocate ==
    /\ pc = "alloc"
    /\ num_max_unique_vertices' = NumMaxUniqueVertices(num_tris)
    /\ unique_vertices' = <<>>
    /\ num_unique_vertices' = 0
    /\ preallocated_nodes' = <<>>
    /\ new_node_index' = 0
    /\ num_buckets' = NumBuckets(num_tris)
    /\ buckets' = [k \in 0 .. BucketInitCount(num_tris) - 1 |-> NULL]
    /\ triangle_index' = 0
    /\ pc' = IF MoreTriangles(0, num_tris) THEN "read_normal" ELSE "window"
    /\ UNCHANGED <<argc, exit_code, message, num_tris, triangle_vertices,
                   triangle_vertex_index, stream, assigned, renderVars,
                   short_read, call, ret>>

\* ----------------------------------------------------- main, lines 172-183
\* A stream holds at most MaxTris records, whatever its count field says.
RecordAvailable == triangle_index < MaxTris

ReadNormal ==
    /\ pc = "read_normal"
    /\ \E got \in 0 .. 1 :
          /\ got = 1 => RecordAvailable
          /\ short_read' = IF got < 1 THEN "normal" ELSE short_read
          /\ IF ReadFails(got, 1)
             THEN Return(1, "Failed to read normal")
             ELSE pc' = "read_vertices" /\ UNCHANGED <<exit_code, message>>
    /\ UNCHANGED <<argc, meshVars, renderVars, call, ret>>

ReadVertices ==
    /\ pc = "read_vertices"
    /\ \E got \in 0 .. 3, tri \in Triangles :
          /\ short_read' = IF got < 3 THEN "vertices" ELSE short_read
          /\ IF ReadFails(got, 3)
             THEN Return(1, "Failed to read vertices")
                  /\ UNCHANGED triangle_vertices
             ELSE /\ pc' = "read_attr"
                  /\ triangle_vertices' = tri
                  /\ UNCHANGED <<exit_code, message>>
    /\ UNCHANGED <<argc, num_tris, num_max_unique_vertices, unique_vertices,
                   num_unique_vertices, preallocated_nodes, new_node_index,
                   num_buckets, buckets, triangle_index, triangle_vertex_index,
                   stream, assigned, renderVars, call, ret>>

ReadAttribute ==
    /\ pc = "read_attr"
    /\ \E got \in 0 .. 1 :
          /\ short_read' = IF got < 1 THEN "attribute" ELSE short_read
          /\ IF ReadFails(got, 1)
             THEN Return(1, "Failed to read attribute byte count")
                  /\ UNCHANGED triangle_vertex_index
             ELSE /\ pc' = "vertex"
                  /\ triangle_vertex_index' = 0
                  /\ UNCHANGED <<exit_code, message>>
    /\ UNCHANGED <<argc, num_tris, num_max_unique_vertices, unique_vertices,
                   num_unique_vertices, preallocated_nodes, new_node_index,
                   num_buckets, buckets, triangle_index, triangle_vertices,
                   stream, assigned, renderVars, call, ret>>

\* ----------------------------------------------------- main, lines 184-199
\* hash(vertex.x, vertex.y, vertex.z) % num_buckets
BucketIndex(vertex, nb) == UMod(hash(vertex[1], vertex[2], vertex[3]), nb)

\* The deduplicator's memory.
Table == [buckets |-> buckets, preallocated_nodes |-> preallocated_nodes,
          new_node_index |-> new_node_index, unique_vertices |-> unique_vertices,
          num_unique_vertices |-> num_unique_vertices]

\* The body of the `if`, lines 190-197, with the count advanced by `step`.
PushVertex(m, bucket_index, vertex, step) ==
    LET node == m.new_node_index
        new_unique_vertex_index == m.num_unique_vertices
    IN  [buckets |-> Store(m.buckets, bucket_index, node),
         preallocated_nodes |->
             Store(m.preallocated_nodes, node,
                   [next |-> NULL, key |-> vertex, value |-> new_unique_vertex_index]),
         new_node_index |-> m.new_node_index + 1,
         unique_vertices |-> Store(m.unique_vertices, new_unique_vertex_index, vertex),
         num_unique_vertices |-> m.num_unique_vertices + step]

\* Every vertex pushed, whatever its bucket holds.
ProcessVertexAlwaysPush(m, vertex, nb) == PushVertex(m, BucketIndex(vertex, nb), vertex, 1)

\* The count advanced twice for a push.
ProcessVertexDoubleCount(m, vertex, nb) ==
    LET bucket_index == BucketIndex(vertex, nb)
    IN  IF m.buckets[bucket_index] = NULL
        THEN PushVertex(m, bucket_index, vertex, 2)
        ELSE m

\* One pass of the vertex loop's body, lines 185-198.
ProcessVertex(m, vertex, nb) ==
    LET bucket_index == BucketIndex(vertex, nb)
    IN  IF m.buckets[bucket_index] = NULL
        THEN PushVertex(m, bucket_index, vertex, 1)
        ELSE m

\* The unique index the table holds for a vertex: buckets[...]->value.
IndexOf(m, vertex, nb) == m.preallocated_nodes[m.buckets[BucketIndex(vertex, nb)]].value

DedupVertex ==
    /\ pc = "vertex"
    /\ LET vertex == triangle_vertices[triangle_vertex_index + 1]
           m == ProcessVertex(Table, vertex, num_buckets)
           last == ~(triangle_vertex_index + 1 < 3)
       IN  /\ buckets' = m.buckets
           /\ preallocated_nodes' = m.preallocated_nodes
           /\ new_node_index' = m.new_node_index
           /\ unique_vertices' = m.unique_vertices
           /\ num_unique_vertices' = m.num_unique_vertices
           /\ stream' = Append(stream, vertex)
           /\ assigned' = Append(assigned, IndexOf(m, vertex, num_buckets))
           /\ triangle_vertex_index' = triangle_vertex_index + 1
           /\ triangle_index' = IF last THEN triangle_index + 1 ELSE triangle_index
           /\ pc' = IF ~last THEN "vertex"
                    ELSE IF MoreTriangles(triangle_index + 1, num_tris)
                         THEN "read_normal" ELSE "window"
    /\ UNCHANGED <<argc, exit_code, message, num_tris, num_max_unique_vertices,
                   num_buckets, triangle_vertices, renderVars, short_read,
                   call, ret>>

\* ----------------------------------------------------- main, lines 204-242
CreateWindow ==
    /\ pc = "window"
    /\ window' = TRUE
    /\ pc' = "events"
    /\ UNCHANGED <<argc, exit_code, message, meshVars, i, j, surface,
                   events_calls, last_events, frames, drawn, total_draws,
                   short_read, call, ret>>

\* while (nano_gui_process_events()): the display surface answers.
ProcessEvents ==
    /\ pc = "events"
    /\ \E continue \in BOOLEAN :
          /\ continue => frames < MaxFrames
          /\ events_calls' = events_calls + 1
          /\ last_events' = IF continue THEN "true" ELSE "false"
          /\ IF continue
             THEN /\ pc' = "pixel"
                  /\ frames' = frames + 1
                  /\ i' = 0
                  /\ j' = 0
                  /\ drawn' = [p \in Pixels(FrameWidth, FrameHeight) |-> 0]
                  /\ UNCHANGED <<exit_code, message>>
             ELSE /\ Return(0, message)
                  /\ UNCHANGED <<frames, i, j, drawn>>
    /\ UNCHANGED <<argc, meshVars, window, surface, total_draws, short_read,
                   call, ret>>

\* j++ of the inner loop, then i++ of the outer one: the next pixel, or the
\* end of the frame.
AfterPixelSkippingLastRow(pi, pj, w, h) ==
    IF pj + 1 < h - 1 THEN [i |-> pi, j |-> pj + 1, more |-> TRUE]
    ELSE IF pi + 1 < w THEN [i |-> pi + 1, j |-> 0, more |-> TRUE]
    ELSE [i |-> pi + 1, j |-> pj + 1, more |-> FALSE]

AfterPixel(pi, pj, w, h) ==
    IF pj + 1 < h THEN [i |-> pi, j |-> pj + 1, more |-> TRUE]
    ELSE IF pi + 1 < w THEN [i |-> pi + 1, j |-> 0, more |-> TRUE]
    ELSE [i |-> pi + 1, j |-> pj + 1, more |-> FALSE]

DrawPixel ==
    /\ pc = "pixel"
    /\ LET nxt == AfterPixel(i, j, FrameWidth, FrameHeight)
       IN  /\ surface' = Store(surface, <<i, j>>,
                               PixelColour(i, j, FrameWidth, FrameHeight).rgb)
           /\ drawn' = [drawn EXCEPT ![<<i, j>>] = @ + 1]
           /\ total_draws' = total_draws + 1
           /\ i' = nxt.i
           /\ j' = nxt.j
           /\ pc' = IF nxt.more THEN "pixel" ELSE "events"
    /\ UNCHANGED <<argc, exit_code, message, meshVars, window, events_calls,
                   last_events, frames, short_read, call, ret>>

Next ==
    \/ CheckArgs
    \/ OpenFile
    \/ SkipHeader
    \/ ReadCount
    \/ Allocate
    \/ ReadNormal
    \/ ReadVertices
    \/ ReadAttribute
    \/ DedupVertex
    \/ CreateWindow
    \/ ProcessEvents
    \/ DrawPixel

Spec == Init /\ [][Next]_vars

\* ------------------------------------------------ hash as a pure function
\* The word with only bit b set, and a word with bit b flipped.
BitWord(b) == IF b < 16 THEN Word(0, Pow2(b)) ELSE Word(Pow2(b - 16), 0)
FlipBit(w, b) == Xor32(w, BitWord(b))

HashBases == {V000, V100, V110, <<BitsNeg0, Word(16457, 4059), Word(65535, 65535)>>}
HashWords == {Bits0, Bits1, Word(0, 1), Word(32767, 65535)}

\* v with component c replaced by the word w
WithComponent(v, c, w) == [k \in 1 .. 3 |-> IF k = c THEN w ELSE v[k]]

\* Pairs of inputs that differ in exactly one component: by one bit, or by
\* an arbitrary other word.
HashCalls ==
    {[fn |-> "hash", v |-> v, c |-> c, w |-> w] :
        v \in HashBases, c \in 1 .. 3,
        w \in {FlipBit(x, b) : x \in {Bits0, Bits1, BitsNeg0}, b \in 0 .. 31}
              \cup HashWords}

HashInit ==
    /\ ProgInit("off", {2})
    /\ call \in {h \in HashCalls : h.w # h.v[h.c]}
    /\ ret = [done |-> FALSE]

CallHash ==
    /\ call.fn = "hash"
    /\ ~ret.done
    /\ LET u == WithComponent(call.v, call.c, call.w)
       IN  ret' = [done |-> TRUE,
                   h1 |-> hash(call.v[1], call.v[2], call.v[3]),
                   h2 |-> hash(u[1], u[2], u[3])]
    /\ UNCHANGED <<progVars, call>>

SpecHash == HashInit /\ [][CallHash]_vars

\* ------------------------------------ the intersection as a pure function
\* Rays and spheres with whole coordinates, which binary32 holds exactly.
RayOrigins == {<<0, 0, 0>>, <<0, 0, -2>>, <<0, 0, -5>>, <<1, 0, 0>>}
RayDirections == {d \in {-1, 0, 1} \X {-1, 0, 1} \X {-1, 0, 1} : d # <<0, 0, 0>>}
SphereRadii == {1, 2}

FVec(v) == <<F(v[1]), F(v[2]), F(v[3])>>

RayInit ==
    /\ ProgInit("off", {2})
    /\ call \in {[fn |-> "intersect", origin |-> o, direction |-> d,
                  center |-> <<0, 0, -2>>, radius |-> r] :
                    o \in RayOrigins, d \in RayDirections, r \in SphereRadii}
    /\ ret = [done |-> FALSE]

CallIntersect ==
    /\ call.fn = "intersect"
    /\ ~ret.done
    /\ ret' = [done |-> TRUE,
               out |-> ray_sphere_intersection_with_normal_and_position(
                          [origin |-> FVec(call.origin),
                           direction |-> FVec(call.direction)],
                          [center |-> FVec(call.center), radius |-> F(call.radius)])]
    /\ UNCHANGED <<progVars, call>>

SpecRay == RayInit /\ [][CallIntersect]_vars

\* ------------------------------------- one pixel's colour as a function
\* width and height, line 204
Width == 640
Height == 480

\* A coarse grid over the frame and a finer one over its lit quarter.
SampleColumns == {40 * k : k \in 0 .. 15} \cup {200 + (5 * k) : k \in 0 .. 6}
SampleRows == {40 * k : k \in 0 .. 11} \cup {135 + (5 * k) : k \in 0 .. 6}

ShadeInit ==
    /\ ProgInit("off", {2})
    /\ call \in {[fn |-> "pixel", i |-> pi, j |-> pj] :
                    pi \in SampleColumns, pj \in SampleRows}
    /\ ret = [done |-> FALSE]

CallPixel ==
    /\ call.fn = "pixel"
    /\ ~ret.done
    /\ ret' = [done |-> TRUE, out |-> PixelColour(call.i, call.j, Width, Height)]
    /\ UNCHANGED <<progVars, call>>

SpecShade == ShadeInit /\ [][CallPixel]_vars

\* ================================================================ claims
Range(f) == {f[k] : k \in DOMAIN f}

\* The distinct elements of a sequence, in the order of first appearance.
RECURSIVE FirstSeen(_)
FirstSeen(q) ==
    IF q = <<>> THEN <<>>
    ELSE LET front == FirstSeen(SubSeq(q, 1, Len(q) - 1))
             x == q[Len(q)]
         IN  IF x \in Range(front) THEN front ELSE Append(front, x)

\* unique_vertices[0 .. num_unique_vertices - 1] as a sequence
UniqueSequence == [k \in 1 .. num_unique_vertices |-> unique_vertices[k - 1]]

\* C1: after any sequence of processed vertices, the unique-vertex sequence
\* holds every distinct vertex bit pattern of the input exactly once, in the
\* order of first appearance, and num_unique_vertices is the number of
\* distinct vertices - also when two distinct vertices share a bucket index.
C1_UniqueIsFirstSeen ==
    /\ num_unique_vertices = Cardinality(Range(stream))
    /\ UniqueSequence = FirstSeen(stream)

\* C2: bit-identical vertices get the same unique index wherever they occur;
\* no bit pattern sits at two indices of unique_vertices; and the index the
\* table holds for a processed vertex is still the one it was given.
C2_SameIndexForSameBits ==
    /\ \A a, b \in 1 .. Len(stream) :
          stream[a] = stream[b] => assigned[a] = assigned[b]
    /\ \A a, b \in DOMAIN unique_vertices :
          a # b => unique_vertices[a] # unique_vertices[b]
    /\ \A a \in 1 .. Len(stream) :
          IndexOf(Table, stream[a], num_buckets) = assigned[a]

\* C2 witness: the shared edge of two triangles - the same vertex as corner 2
\* of the first and corner 1 of the second - with one index for both.
C2_Witness ==
    /\ Len(stream) = 6
    /\ stream[2] = stream[4]
    /\ assigned[2] = assigned[4]
    /\ num_unique_vertices = 4

\* C3: num_unique_vertices never exceeds 3 * triangle_count, and each step of
\* the parse leaves it alone or adds one to it (so it never decreases).
C3_CountBoundedMonotone ==
    /\ []((num_unique_vertices + 2) \div 3 <= num_tris)
    /\ [][num_unique_vertices' \in {num_unique_vertices, num_unique_vertices + 1}]_vars

\* C3 witness: one triangle with three distinct corners, all three counted:
\* the bound is met, after three steps that each added one.
C3_Witness ==
    /\ num_tris = 1
    /\ Len(stream) = 3
    /\ num_unique_vertices = 3

FailureMessage(field) ==
    CASE field = "header" -> "Failed to seek"
      [] field = "count" -> "Failed to read number of triangles"
      [] field = "normal" -> "Failed to read normal"
      [] field = "vertices" -> "Failed to read vertices"
      [] field = "attribute" -> "Failed to read attribute byte count"
      [] OTHER -> ""

Before(p, q) == p[1] < q[1] \/ (p[1] = q[1] /\ p[2] < q[2])

\* C7: the mesh is loaded before the first process_events call; between a
\* call that returned true and the next call, every pixel is drawn exactly
\* once; the loop ends only on a call that returned false, after which
\* nothing is drawn and the exit code is 0.
C7_PollAndFramesAlternate ==
    /\ (window \/ events_calls > 0 \/ total_draws > 0) =>
          /\ triangle_index = num_tris
          /\ Len(stream) = 3 * triangle_index
          /\ short_read = "none"
    /\ pc = "events" =>
          /\ window
          /\ \A p \in Pixels(FrameWidth, FrameHeight) :
                drawn[p] = IF frames = 0 THEN 0 ELSE 1
    /\ pc = "pixel" =>
          /\ last_events = "true"
          /\ \A p \in Pixels(FrameWidth, FrameHeight) :
                drawn[p] = IF Before(p, <<i, j>>) THEN 1 ELSE 0
    /\ events_calls = frames + (IF last_events = "false" THEN 1 ELSE 0)
    /\ pc \in {"events", "exit"} => total_draws = frames * FrameWidth * FrameHeight
    /\ last_events = "false" => pc = "exit"
    /\ (pc = "exit" /\ window) => (last_events = "false" /\ exit_code = 0)

\* C7 witness: two complete frames, then the call that returned false.
C7_Witness ==
    /\ pc = "exit"
    /\ frames = 2
    /\ events_calls = 3
    /\ total_draws = 2 * FrameWidth * FrameHeight
    /\ \A p \in Pixels(FrameWidth, FrameHeight) : drawn[p] = 1

\* The arrays exist: lines 154-167 have run and main has not returned.
Allocated ==
    pc \in {"read_normal", "read_vertices", "read_attr", "vertex", "window",
            "events", "pixel"}

\* C9: for every triangle count N read from the file, the capacity of the
\* unique-vertex array and of the node arena, the bucket count and the number
\* of buckets cleared are each exactly 3 * N.
C9_CapacityIsThreeN ==
    Allocated =>
        \A cap \in {num_max_unique_vertices, num_buckets, Cardinality(DOMAIN buckets)} :
            cap % 3 = 0 /\ cap \div 3 = num_tris

\* C10: hash % num_buckets is never reached with num_buckets = 0;
\* new_node_index = num_unique_vertices = the number of non-empty buckets; and
\* every cell written in unique_vertices, preallocated_nodes and buckets, and
\* every cell about to be written, lies below the allocated capacity.
C10_WritesInBounds ==
    /\ pc = "vertex" => num_buckets # 0
    /\ new_node_index = num_unique_vertices
    /\ num_unique_vertices = Cardinality({b \in DOMAIN buckets : buckets[b] # NULL})
    /\ DOMAIN unique_vertices \subseteq 0 .. num_max_unique_vertices - 1
    /\ DOMAIN preallocated_nodes \subseteq 0 .. num_max_unique_vertices - 1
    /\ DOMAIN buckets \subseteq 0 .. num_buckets - 1
    /\ (pc = "vertex" /\ num_buckets # 0) =>
          LET bucket_index ==
                  BucketIndex(triangle_vertices[triangle_vertex_index + 1], num_buckets)
          IN  /\ bucket_index \in DOMAIN buckets
              /\ bucket_index < num_buckets
              /\ buckets[bucket_index] = NULL =>
                    /\ new_node_index < num_max_unique_vertices
                    /\ num_unique_vertices < num_max_unique_vertices

\* C10 witness: a count field whose 3 * N wraps to 2, both buckets taken, and
\* another vertex about to be processed.
C10_Witness ==
    /\ num_tris = WrapTris
    /\ num_buckets = 2
    /\ num_unique_vertices = 2
    /\ pc = "vertex"

\* C5: two inputs that differ in exactly one component hash differently
\* (hash is injective in each component, the others fixed), and hash returns
\* the value the reference arithmetic gives: 0xcf56662f for (1.0, 0.0, 0.0).
C5_HashSeparatesOneComponent ==
    ret.done =>
        /\ ret.h1 # ret.h2
        /\ call.v = V100 => ret.h1 = Word(53078, 26159)

\* C5 witness: 0.0 against -0.0 in z - one flipped bit, the top one.
C5_Witness ==
    /\ ret.done
    /\ call.v = V000
    /\ call.c = 3
    /\ call.w = BitsNeg0

\* The quadratic of a call in whole numbers: a, b, c and the discriminant.
WholeQuadratic(k) ==
    LET oc == <<k.origin[1] - k.center[1], k.origin[2] - k.center[2],
                k.origin[3] - k.center[3]>>
        d == k.direction
        a == (d[1] * d[1]) + (d[2] * d[2]) + (d[3] * d[3])
        b == 2 * ((oc[1] * d[1]) + (oc[2] * d[2]) + (oc[3] * d[3]))
        c == ((oc[1] * oc[1]) + (oc[2] * oc[2]) + (oc[3] * oc[3])) - (k.radius * k.radius)
    IN  [a |-> a, b |-> b, discriminant |-> (b * b) - (4 * a * c)]

\* t is the near root of q within the rounding of the grid: 2at + b is
\* -sqrt(discriminant), up to `slack` grid steps.
IsNearRoot(q, t) ==
    LET u == (2 * q.a * t) + (q.b * FScale)
        slack == (2 * q.a) + 2
        low == IF (0 - u) - slack < 0 THEN 0 ELSE (0 - u) - slack
        high == (0 - u) + slack
    IN  /\ u <= 0
        /\ low * low <= q.discriminant * FScale * FScale
        /\ q.discriminant * FScale * FScale <= high * high

\* C6: a hit is reported exactly when b^2 - 4ac >= 0; the reported t is then
\* the near root, also when it is negative; and the ray from the origin along
\* (0,0,-1) meets the sphere at (0,0,-2) of radius 1 at t = 1, position
\* (0,0,-1), normal (0,0,1).
C6_NearRootUnfiltered ==
    ret.done =>
        LET q == WholeQuadratic(call)
        IN  /\ ret.out.hit <=> q.discriminant >= 0
            /\ ret.out.hit => IsNearRoot(q, ret.out.t)
            /\ (call.origin = <<0, 0, 0>> /\ call.direction = <<0, 0, -1>>
                   /\ call.radius = 1) =>
                  /\ ret.out.hit
                  /\ ret.out.t = F(1)
                  /\ ret.out.position = <<0, 0, F(-1)>>
                  /\ ret.out.normal = <<0, 0, F(1)>>

\* C6 witness: the ray pointing away from the sphere in front of it: both
\* roots are behind the origin, and the hit is reported with t = -3.
C6_Witness ==
    /\ ret.done
    /\ call.origin = <<0, 0, 0>>
    /\ call.direction = <<0, 0, 1>>
    /\ call.radius = 1
    /\ ret.out.hit
    /\ ret.out.t = F(-3)

\* C8: the colour written for a pixel whose ray hits the sphere is, per
\* channel, clamp(255 * (diffuse + specular), 0, 255); for a miss it is black.
C8_ColourAddsSpecular ==
    ret.done =>
        ret.out.rgb =
            IF ret.out.hit
            THEN [k \in 1 .. 3 |->
                    Channel(ret.out.lighting.color[k] + ret.out.lighting.specular[k])]
            ELSE <<0, 0, 0>>

====
